---------------------------- MODULE Spec2Model ----------------------------
(***************************************************************************)
(* A model of src/bin/genome.py: the records Genome -> Sequence ->         *)
(* Annotation, the two result parsers of AnnotationParser and the overlap  *)
(* resolution of Sequence.add.                                             *)
(*                                                                         *)
(* Text fields of a result file are tuples of one-character strings, so    *)
(* that int() and float() are computed from the characters.  A float is    *)
(* the record [m, e] standing for m * 10^e, with m a natural number that   *)
(* does not end in 0 (zero is [m |-> 0, e |-> 0]).  The tokens used here   *)
(* are unsigned decimals with an optional fraction and exponent; signs on  *)
(* the mantissa, "nan" and "inf" are left out of the token pools.          *)
(***************************************************************************)
EXTENDS Integers, Sequences, FiniteSets, TLC

VARIABLES
    sequences,  \* Genome.sequences: protein name -> [length, annotations]
    last,       \* the last call made on the genome or a sequence, its
                \* arguments, the annotations before it and what it returned
    gen         \* the running result parser (a generator) and the
                \* Genome.add loop that drives it

vars == <<sequences, last, gen>>

---------------------------------------------------------------------------
(* Bounds of the model *)

\* Sequence.length of every protein of the modelled genome
SeqLength == 2
\* longest list of positions handed to Sequence.what
MaxQuery == 2
\* no call appends to a list that is already this long (never reached by
\* Sequence.add, which holds one record per type)
MaxAnnotations == 3
\* mantissas of the float tokens have fewer decimal digits than this
MantissaDigits == 4
\* lines read from one result file
MaxLines == 2

---------------------------------------------------------------------------
(* int() and float() of a text field *)

Digits == {"0", "1", "2", "3", "4", "5", "6", "7", "8", "9"}

DigitVal(c) ==
    CASE c = "0" -> 0 [] c = "1" -> 1 [] c = "2" -> 2 [] c = "3" -> 3
      [] c = "4" -> 4 [] c = "5" -> 5 [] c = "6" -> 6 [] c = "7" -> 7
      [] c = "8" -> 8 [] c = "9" -> 9

AllDigits(tok) == Len(tok) > 0 /\ \A i \in 1..Len(tok) : tok[i] \in Digits

RECURSIVE DigitsValue(_)
DigitsValue(tok) ==
    IF tok = <<>> THEN 0
    ELSE 10 * DigitsValue(SubSeq(tok, 1, Len(tok) - 1)) + DigitVal(tok[Len(tok)])

RECURSIVE Pow10(_)
Pow10(n) == IF n = 0 THEN 1 ELSE 10 * Pow10(n - 1)

\* first index of character c in tok, or 0
IndexOf(tok, c) ==
    IF \E i \in 1..Len(tok) : tok[i] = c
    THEN CHOOSE i \in 1..Len(tok) : tok[i] = c /\ \A j \in 1..(i - 1) : tok[j] # c
    ELSE 0

\* int(x): an optional sign and decimal digits; anything else raises
\* ValueError (ok = FALSE)
ParseInt(tok) ==
    IF Len(tok) > 1 /\ tok[1] \in {"-", "+"} /\ AllDigits(Tail(tok))
    THEN [ok |-> TRUE,
          val |-> IF tok[1] = "-" THEN 0 - DigitsValue(Tail(tok))
                  ELSE DigitsValue(Tail(tok))]
    ELSE IF AllDigits(tok) THEN [ok |-> TRUE, val |-> DigitsValue(tok)]
    ELSE [ok |-> FALSE, val |-> 0]

RECURSIVE FloatNorm(_, _)
FloatNorm(m, e) ==
    IF m = 0 THEN [m |-> 0, e |-> 0]
    ELSE IF m % 10 = 0 THEN FloatNorm(m \div 10, e + 1)
    ELSE [m |-> m, e |-> e]

\* float(x): digits [. digits] [e [sign] digits]; anything else raises
\* ValueError (ok = FALSE)
ParseFloat(tok) ==
    LET epos  == IndexOf(tok, "e")
        mant  == IF epos = 0 THEN tok ELSE SubSeq(tok, 1, epos - 1)
        expo  == IF epos = 0 THEN <<>> ELSE SubSeq(tok, epos + 1, Len(tok))
        dpos  == IndexOf(mant, ".")
        whole == IF dpos = 0 THEN mant ELSE SubSeq(mant, 1, dpos - 1)
        frac  == IF dpos = 0 THEN <<>> ELSE SubSeq(mant, dpos + 1, Len(mant))
        pexp  == IF epos = 0 THEN [ok |-> TRUE, val |-> 0] ELSE ParseInt(expo)
        mok   == /\ Len(whole) + Len(frac) > 0
                 /\ \A i \in 1..Len(whole) : whole[i] \in Digits
                 /\ \A i \in 1..Len(frac) : frac[i] \in Digits
    IN  IF mok /\ pexp.ok
        THEN [ok |-> TRUE,
              val |-> FloatNorm(DigitsValue(whole \o frac), pexp.val - Len(frac))]
        ELSE [ok |-> FALSE, val |-> [m |-> 0, e |-> 0]]

\* a <= b for floats a, b >= 0 whose mantissas have fewer than
\* MantissaDigits digits
FloatLe(a, b) ==
    LET d == a.e - b.e
    IN  IF a.m = 0 THEN TRUE
        ELSE IF b.m = 0 THEN FALSE
        ELSE IF d >= 0 THEN d < MantissaDigits /\ a.m * Pow10(d) <= b.m
        ELSE (0 - d) >= MantissaDigits \/ a.m <= b.m * Pow10(0 - d)

FloatLt(a, b) == ~FloatLe(b, a)

FloatMul(a, b) == FloatNorm(a.m * b.m, a.e + b.e)

IntToFloat(n) == FloatNorm(n, 0)

---------------------------------------------------------------------------
(* Annotation *)

\* Annotation.__init__: float(evalue) and set(region)
Annotation(annotation, evalue, region, annotation_type) ==
    [annotation |-> annotation,
     evalue     |-> ParseFloat(evalue).val,
     region     |-> region,
     type       |-> annotation_type]

\* variants of the comparison: <= in place of <, and > in place of <
Annotation_compare_equal(self, other_annotation) ==
    FloatLe(self.evalue, other_annotation.evalue)

Annotation_compare_greater(self, other_annotation) ==
    FloatLt(other_annotation.evalue, self.evalue)

\* Annotation.compare: True iff self is the better annotation
Annotation_compare(self, other_annotation) ==
    FloatLt(self.evalue, other_annotation.evalue)

---------------------------------------------------------------------------
(* Sequence *)

\* Python's None as a dictionary value: no text field equals it
None == <<"None">>

\* Sequence.__init__: no annotations
Sequence(length) == [length |-> length, annotations |-> <<>>]

\* Sequence.all_annotations: the identifiers, one per list entry, in order
all_annotations(self) ==
    [i \in 1..Len(self.annotations) |-> self.annotations[i].annotation]

\* Sequence.seqdict: every position of range(length) starts as None, then
\* each annotation in list order writes its identifier on its positions
RECURSIVE SeqDictFill(_, _, _)
SeqDictFill(seq_dict, annotations, i) ==
    IF i > Len(annotations) THEN seq_dict
    ELSE SeqDictFill(
            [p \in DOMAIN seq_dict \cup annotations[i].region |->
                IF p \in annotations[i].region THEN annotations[i].annotation
                ELSE seq_dict[p]],
            annotations, i + 1)

seqdict(self) ==
    SeqDictFill([x \in 0..(self.length - 1) |-> None], self.annotations, 1)

\* Sequence.what: one result per queried position, appended in query order;
\* a position that is no key of seqdict() raises KeyError
RECURSIVE WhatLoop(_, _, _)
WhatLoop(seq_dict, query_region, result) ==
    IF query_region = <<>> THEN [ok |-> TRUE, result |-> result]
    ELSE IF Head(query_region) \notin DOMAIN seq_dict
         THEN [ok |-> FALSE, result |-> <<>>]
         ELSE WhatLoop(seq_dict, Tail(query_region),
                       Append(result, seq_dict[Head(query_region)]))

\* a variant that answers the positions in ascending order
what_sorted(self, query_region) ==
    WhatLoop(seqdict(self), SortSeq(query_region, <), <<>>)

what(self, query_region) == WhatLoop(seqdict(self), query_region, <<>>)

\* Sequence.add, lines 194-202: the annotations after the call
HasType(annotations, t) ==
    \E i \in 1..Len(annotations) : annotations[i].type = t

\* a variant that also appends a candidate intersecting no record of its type
add_resolve_append(annotations, new_annotation) ==
    IF \E i \in 1..Len(annotations) :
            /\ annotations[i].type = new_annotation.type
            /\ annotations[i].region \cap new_annotation.region # {}
    THEN [idx \in 1..Len(annotations) |->
            IF /\ annotations[idx].type = new_annotation.type
               /\ annotations[idx].region \cap new_annotation.region # {}
               /\ Annotation_compare(new_annotation, annotations[idx])
            THEN new_annotation
            ELSE annotations[idx]]
    ELSE Append(annotations, new_annotation)

add_resolve(annotations, new_annotation) ==
    IF HasType(annotations, new_annotation.type)
    THEN [idx \in 1..Len(annotations) |->
            IF /\ annotations[idx].type = new_annotation.type
               /\ annotations[idx].region \cap new_annotation.region # {}
               /\ Annotation_compare(new_annotation, annotations[idx])
            THEN new_annotation
            ELSE annotations[idx]]
    ELSE Append(annotations, new_annotation)

\* Sequence.add: float(evalue) raises before anything is stored
Sequence_add(self, annotation, evalue, region, annotation_type) ==
    IF ParseFloat(evalue).ok
    THEN [self EXCEPT !.annotations =
            add_resolve(@, Annotation(annotation, evalue, region, annotation_type))]
    ELSE self

---------------------------------------------------------------------------
(* AnnotationParser's class attributes: the annotation types *)

KO      == "KO_IDS.txt"
PFAM    == "PFAM_IDS.txt"
TIGRFAM == "TIGRFAM_IDS.txt"
COG     == "None"

---------------------------------------------------------------------------
(* Calls made directly on one Sequence: add, what, seqdict *)

NoCall == [op |-> "none", seq |-> <<>>, arg |-> <<>>, before |-> <<>>,
           result |-> <<>>]

GenIdle == [pc |-> "idle"]

\* Genome.add has returned: its generator is gone
GenDone == [pc |-> "done"]

\* e-values as they are written in a result file
EvalueTokens == {<<"1", "e", "-", "1", "0">>, <<"1", "e", "-", "5">>}

\* regions handed to Sequence.add: every set of positions of the sequence,
\* and one that runs past its end
Regions == (SUBSET (0..(SeqLength - 1))) \cup {{SeqLength - 1, SeqLength}}

\* an identifier of each vocabulary, with the type of its vocabulary
K00001  == <<"K", "0", "0", "0", "0", "1">>
PF00001 == <<"P", "F", "0", "0", "0", "0", "1">>

TypedIds == {<<K00001, KO>>, <<PF00001, PFAM>>}

Candidates ==
    {[annotation |-> ti[1], evalue |-> ev, region |-> r, type |-> ti[2]] :
        ti \in TypedIds, ev \in EvalueTokens, r \in Regions}

RECURSIVE SeqsUpTo(_, _)
SeqsUpTo(S, n) ==
    IF n = 0 THEN {<<>>}
    ELSE LET shorter == SeqsUpTo(S, n - 1)
         IN  shorter \cup {Append(q, x) : q \in shorter, x \in S}

Queries == SeqsUpTo(0..SeqLength, MaxQuery)

InitSequence ==
    /\ sequences = [p \in {<<"A">>} |-> Sequence(SeqLength)]
    /\ last = NoCall
    /\ gen = GenIdle

\* sequence.add(annotation, evalue, region, annotation_type), the arguments
\* drawn from pool
SeqAddFrom(pool) ==
    \E s \in DOMAIN sequences, c \in pool :
        /\ Len(sequences[s].annotations) < MaxAnnotations
        /\ sequences' = [sequences EXCEPT ![s] =
                Sequence_add(@, c.annotation, c.evalue, c.region, c.type)]
        /\ last' = [op |-> "add", seq |-> s, arg |-> c,
                    before |-> sequences[s].annotations, result |-> <<>>]
        /\ UNCHANGED gen

SeqAdd == SeqAddFrom(Candidates)

\* the reads below do not look at e-values: one e-value is enough to build
\* every list of identifiers and regions
QueryCandidates == {c \in Candidates : c.evalue = <<"1", "e", "-", "5">>}

SeqAddForQuery == SeqAddFrom(QueryCandidates)

\* sequence.what(query_region)
SeqWhat ==
    \E s \in DOMAIN sequences, q \in Queries :
        /\ last' = [op |-> "what", seq |-> s, arg |-> q,
                    before |-> sequences[s].annotations,
                    result |-> what(sequences[s], q)]
        /\ UNCHANGED <<sequences, gen>>

\* sequence.seqdict()
SeqDict ==
    \E s \in DOMAIN sequences :
        /\ last' = [op |-> "seqdict", seq |-> s, arg |-> <<>>,
                    before |-> sequences[s].annotations,
                    result |-> seqdict(sequences[s])]
        /\ UNCHANGED <<sequences, gen>>

NextSequence == SeqAdd

SpecSequence == InitSequence /\ [][NextSequence]_vars

NextQuery == SeqAddForQuery \/ SeqWhat \/ SeqDict

SpecQuery == InitSequence /\ [][NextQuery]_vars

---------------------------------------------------------------------------
(* Properties of Sequence.add, checked under SpecSequence *)

\* the candidate of the last add call, as the Annotation it builds
LastNew ==
    Annotation(last.arg.annotation, last.arg.evalue, last.arg.region,
               last.arg.type)

LastNow == sequences[last.seq].annotations

Clashes(old, new) == old.type = new.type /\ old.region \cap new.region # {}

\* C1: when the sequence already holds an annotation of the candidate's
\* type, every existing annotation of that type whose region intersects the
\* candidate's is replaced in place by the candidate if the candidate's
\* e-value is strictly lower, and is left as it was if the e-values are
\* equal or the candidate's is larger.
C1_ReplaceIffStrictlyBetter ==
    (last.op = "add" /\ HasType(last.before, last.arg.type)) =>
        /\ Len(LastNow) = Len(last.before)
        /\ \A idx \in 1..Len(last.before) :
              Clashes(last.before[idx], LastNew) =>
                  IF FloatLt(LastNew.evalue, last.before[idx].evalue)
                  THEN LastNow[idx] = LastNew
                  ELSE LastNow[idx] = last.before[idx]

\* an add replaced a clashing record by a different, strictly better one
C1_Witness_Replaced ==
    /\ last.op = "add"
    /\ \E idx \in 1..Len(last.before) :
          /\ Clashes(last.before[idx], LastNew)
          /\ FloatLt(LastNew.evalue, last.before[idx].evalue)
          /\ LastNow[idx] = LastNew
          /\ LastNow[idx] # last.before[idx]

\* C2: a candidate added to an empty sequence is stored; a second candidate
\* of the same type with an intersecting region and a different e-value,
\* added next, leaves exactly one stored annotation, the one of the two
\* with the lower e-value, whichever of them came first.
C2_LowerEvalueWinsEitherOrder ==
    /\ (last.op = "add" /\ last.before = <<>>) => LastNow = <<LastNew>>
    /\ (/\ last.op = "add"
        /\ Len(last.before) = 1
        /\ Clashes(last.before[1], LastNew)
        /\ last.before[1].evalue # LastNew.evalue) =>
            /\ Len(LastNow) = 1
            /\ LastNow[1] \in {last.before[1], LastNew}
            /\ FloatLe(LastNow[1].evalue, last.before[1].evalue)
            /\ FloatLe(LastNow[1].evalue, LastNew.evalue)

\* the worse candidate came second and the first, better one is still stored
C2_Witness_WorseSecond ==
    /\ last.op = "add"
    /\ Len(last.before) = 1
    /\ Clashes(last.before[1], LastNew)
    /\ FloatLt(last.before[1].evalue, LastNew.evalue)
    /\ LastNow = last.before

C4_OnePerTypeCluster ==
    \A s \in DOMAIN sequences :
        \A i, j \in 1..Len(sequences[s].annotations) :
            i # j => ~Clashes(sequences[s].annotations[i],
                              sequences[s].annotations[j])

\* a same-type candidate was resolved against a list that holds two
\* records (of different types) with intersecting regions
C4_Witness_TwoRecords ==
    /\ last.op = "add"
    /\ HasType(last.before, last.arg.type)
    /\ Len(LastNow) = 2
    /\ LastNow[1].region \cap LastNow[2].region # {}
    /\ LastNow # last.before

---------------------------------------------------------------------------
(* Properties of Sequence.what and Sequence.seqdict, checked under SpecQuery *)

\* C10: what(positions) returns as many values as positions, the i-th being
\* seqdict()[positions[i]] (and raises exactly when a position is no key of
\* seqdict()); neither what nor seqdict changes the stored annotations.
C10_WhatReadsSeqdict ==
    /\ last.op = "what" =>
          LET seq_dict == seqdict(sequences[last.seq])
              q == last.arg
          IN  IF \A i \in 1..Len(q) : q[i] \in DOMAIN seq_dict
              THEN /\ last.result.ok
                   /\ Len(last.result.result) = Len(q)
                   /\ \A i \in 1..Len(q) : last.result.result[i] = seq_dict[q[i]]
              ELSE ~last.result.ok
    /\ last.op \in {"what", "seqdict"} => LastNow = last.before

\* what answered an unsorted query with two different identifiers
C10_Witness_UnsortedQuery ==
    /\ last.op = "what"
    /\ last.result.ok
    /\ Len(last.arg) = 2
    /\ last.arg[1] > last.arg[2]
    /\ last.result.result[1] # last.result.result[2]
    /\ None \notin {last.result.result[1], last.result.result[2]}

---------------------------------------------------------------------------
(* AnnotationParser: one line of a result file at a time.  A line is the    *)
(* tuple of its whitespace-separated fields.  What a line does to the       *)
(* generator: it yields a hit, it is passed over, or it raises.             *)

Yield(hit) == [kind |-> "yield", error |-> "", hit |-> hit]
Skip == [kind |-> "skip", error |-> "", hit |-> <<>>]
Raise(e) == [kind |-> "error", error |-> e, hit |-> <<>>]

\* str.split(sep)
RECURSIVE Split(_, _)
Split(tok, sep) ==
    LET i == IndexOf(tok, sep)
    IN  IF i = 0 THEN <<tok>>
        ELSE <<SubSeq(tok, 1, i - 1)>> \o Split(SubSeq(tok, i + 1, Len(tok)), sep)

Min(a, b) == IF a <= b THEN a ELSE b
Max(a, b) == IF a >= b THEN a ELSE b

\* range(lo, hi) as the set of its positions
Range(lo, hi) == lo..(hi - 1)

\* from_blast_results, lines 283-295: the body of the loop for one line.
\* Python's "and" converts a field only when the tests before it passed.
\* (first a variant whose e-value test is strict)
blast_line_strict_evalue(sline, evalue_cutoff, bitscore_cutoff, percent_id_cutoff) ==
    IF Len(sline) < 12 THEN Raise("IndexError")
    ELSE
    LET evalue  == sline[11]
        bit     == sline[12]
        perc_id == sline[3]
        first   == ParseInt(sline[7])
        second  == ParseInt(sline[8])
    IN  IF ~first.ok \/ ~second.ok THEN Raise("ValueError")
        ELSE IF ~ParseFloat(evalue).ok THEN Raise("ValueError")
        ELSE IF ~FloatLt(ParseFloat(evalue).val, evalue_cutoff) THEN Skip
        ELSE IF ~ParseFloat(bit).ok THEN Raise("ValueError")
        ELSE IF ~FloatLe(bitscore_cutoff, ParseFloat(bit).val) THEN Skip
        ELSE IF ~ParseFloat(perc_id).ok THEN Raise("ValueError")
        ELSE IF ~FloatLe(percent_id_cutoff, ParseFloat(perc_id).val) THEN Skip
        ELSE IF Len(Split(sline[2], "~")) < 2 THEN Raise("IndexError")
        ELSE Yield([seqname    |-> sline[1],
                    annotation |-> Split(sline[2], "~")[2],
                    evalue     |-> evalue,
                    region     |-> Range(Min(first.val, second.val),
                                         Max(first.val, second.val))])

blast_line(sline, evalue_cutoff, bitscore_cutoff, percent_id_cutoff) ==
    IF Len(sline) < 12 THEN Raise("IndexError")
    ELSE
    LET evalue  == sline[11]
        bit     == sline[12]
        perc_id == sline[3]
        first   == ParseInt(sline[7])
        second  == ParseInt(sline[8])
    IN  IF ~first.ok \/ ~second.ok THEN Raise("ValueError")
        ELSE IF ~ParseFloat(evalue).ok THEN Raise("ValueError")
        ELSE IF ~FloatLe(ParseFloat(evalue).val, evalue_cutoff) THEN Skip
        ELSE IF ~ParseFloat(bit).ok THEN Raise("ValueError")
        ELSE IF ~FloatLe(bitscore_cutoff, ParseFloat(bit).val) THEN Skip
        ELSE IF ~ParseFloat(perc_id).ok THEN Raise("ValueError")
        ELSE IF ~FloatLe(percent_id_cutoff, ParseFloat(perc_id).val) THEN Skip
        ELSE IF Len(Split(sline[2], "~")) < 2 THEN Raise("IndexError")
        ELSE Yield([seqname    |-> sline[1],
                    annotation |-> Split(sline[2], "~")[2],
                    evalue     |-> evalue,
                    region     |-> Range(Min(first.val, second.val),
                                         Max(first.val, second.val))])

\* line.startswith('#')
StartsWithHash(line) ==
    Len(line) > 0 /\ Len(line[1]) > 0 /\ line[1][1] = "#"

\* span / float(length) >= cutoff, for length > 0: span >= cutoff * length
RatioAtLeast(span, length, cutoff) ==
    FloatLe(FloatMul(cutoff, length), IntToFloat(span))

\* from_hmmsearch_results, lines 328-350: the body of the loop for one line
\* (first a variant whose second ratio is taken over the hmm coordinates)
hmmsearch_line_hmm_span(line, evalue_cutoff, bitscore_cutoff, percent_aln_query_cutoff, percent_aln_reference_cutoff) ==
    IF StartsWithHash(line) THEN Skip
    ELSE IF Len(line) < 22 THEN Raise("ValueError")
    ELSE
    LET seqname   == line[1]
        tlen      == ParseFloat(line[3])
        accession == line[5]
        qlen      == ParseFloat(line[6])
        evalue    == line[7]
        score     == line[8]
        hmm_from  == ParseInt(line[16])
        hmm_to    == ParseInt(line[17])
        seq_from  == ParseInt(line[18])
        seq_to    == ParseInt(line[19])
        seq_span  == Max(seq_from.val, seq_to.val) - Min(seq_from.val, seq_to.val)
        hmm_span  == Max(hmm_from.val, hmm_to.val) - Min(hmm_from.val, hmm_to.val)
    IN  IF ~seq_from.ok \/ ~seq_to.ok \/ ~hmm_from.ok \/ ~hmm_to.ok
        THEN Raise("ValueError")
        ELSE IF ~tlen.ok THEN Raise("ValueError")
        ELSE IF tlen.val.m = 0 THEN Raise("ZeroDivisionError")
        ELSE IF ~qlen.ok THEN Raise("ValueError")
        ELSE IF qlen.val.m = 0 THEN Raise("ZeroDivisionError")
        ELSE IF ~ParseFloat(evalue).ok THEN Raise("ValueError")
        ELSE IF ~FloatLe(ParseFloat(evalue).val, evalue_cutoff) THEN Skip
        ELSE IF ~ParseFloat(score).ok THEN Raise("ValueError")
        ELSE IF ~FloatLe(bitscore_cutoff, ParseFloat(score).val) THEN Skip
        ELSE IF ~RatioAtLeast(seq_span, tlen.val, percent_aln_query_cutoff) THEN Skip
        ELSE IF ~RatioAtLeast(hmm_span, qlen.val, percent_aln_reference_cutoff) THEN Skip
        ELSE Yield([seqname    |-> seqname,
                    annotation |-> accession,
                    evalue     |-> evalue,
                    region     |-> Range(Min(seq_from.val, seq_to.val),
                                         Max(seq_from.val, seq_to.val))])

hmmsearch_line(line, evalue_cutoff, bitscore_cutoff, percent_aln_query_cutoff, percent_aln_reference_cutoff) ==
    IF StartsWithHash(line) THEN Skip
    ELSE IF Len(line) < 22 THEN Raise("ValueError")
    ELSE
    LET seqname   == line[1]
        tlen      == ParseFloat(line[3])
        accession == line[5]
        qlen      == ParseFloat(line[6])
        evalue    == line[7]
        score     == line[8]
        hmm_from  == ParseInt(line[16])
        hmm_to    == ParseInt(line[17])
        seq_from  == ParseInt(line[18])
        seq_to    == ParseInt(line[19])
        seq_span  == Max(seq_from.val, seq_to.val) - Min(seq_from.val, seq_to.val)
    IN  IF ~seq_from.ok \/ ~seq_to.ok \/ ~hmm_from.ok \/ ~hmm_to.ok
        THEN Raise("ValueError")
        ELSE IF ~tlen.ok THEN Raise("ValueError")
        ELSE IF tlen.val.m = 0 THEN Raise("ZeroDivisionError")
        ELSE IF ~qlen.ok THEN Raise("ValueError")
        ELSE IF qlen.val.m = 0 THEN Raise("ZeroDivisionError")
        ELSE IF ~ParseFloat(evalue).ok THEN Raise("ValueError")
        ELSE IF ~FloatLe(ParseFloat(evalue).val, evalue_cutoff) THEN Skip
        ELSE IF ~ParseFloat(score).ok THEN Raise("ValueError")
        ELSE IF ~FloatLe(bitscore_cutoff, ParseFloat(score).val) THEN Skip
        ELSE IF ~RatioAtLeast(seq_span, tlen.val, percent_aln_query_cutoff) THEN Skip
        ELSE IF ~RatioAtLeast(seq_span, qlen.val, percent_aln_reference_cutoff) THEN Skip
        ELSE Yield([seqname    |-> seqname,
                    annotation |-> accession,
                    evalue     |-> evalue,
                    region     |-> Range(Min(seq_from.val, seq_to.val),
                                         Max(seq_from.val, seq_to.val))])

---------------------------------------------------------------------------
(* The lines of the result files *)

\* a field no parser reads
Filler == <<"-">>

Malformed == <<"x">>

SeqA == <<"A">>

\* e-values below, at and above the cutoff 1e-5, and one that is no number
EvalueFields ==
    {<<"1", "e", "-", "1", "0">>, <<"1", "e", "-", "5">>,
     <<"1", "e", "-", "3">>, Malformed}

\* scores at and below the cutoff 50
ScoreFields == {<<"5", "0">>, <<"4", "9", ".", "9">>, Malformed}

\* percent identities at and below the cutoff 30
IdentityFields == {<<"3", "0">>, <<"2", "9">>, Malformed}

\* alignment coordinates: forward, reversed, malformed
CoordinateFields ==
    {<<<<"2">>, <<"5">>>>, <<<<"7">>, <<"3">>>>, <<Malformed, <<"5">>>>}

\* targets: database~accession, no delimiter, two delimiters
TargetFields ==
    {<<"k", "o", "~">> \o K00001, K00001, <<"a", "~", "b", "~", "c">>}

BlastLine(seqname, target, perc_id, first, second, evalue, bit) ==
    <<seqname, target, perc_id, Filler, Filler, Filler, first, second,
      Filler, Filler, evalue, bit>>

BlastLines ==
    {BlastLine(SeqA, t, pid, co[1], co[2], ev, bit) :
        t \in TargetFields, pid \in IdentityFields, co \in CoordinateFields,
        ev \in EvalueFields, bit \in ScoreFields}
    \cup {<<>>}

\* target and query lengths: the aligned span is a half, a quarter of them
LengthFields == {<<"1", "0">>, <<"2", "0">>, Malformed}

\* hmm coordinates: a span of 10, twice the sequence span, or malformed
HmmCoordinateFields == {<<<<"1">>, <<"1", "1">>>>, <<Malformed, <<"1", "1">>>>}

\* sequence coordinates: a span of 5, forward, reversed, or malformed
SeqCoordinateFields ==
    {<<<<"2">>, <<"7">>>>, <<<<"8">>, <<"3">>>>, <<Malformed, <<"7">>>>}

HmmLine(seqname, tlen, accession, qlen, evalue, score, hmm_from, hmm_to, seq_from, seq_to) ==
    <<seqname, Filler, tlen, Filler, accession, qlen, evalue, score,
      Filler, Filler, Filler, Filler, Filler, Filler, Filler,
      hmm_from, hmm_to, seq_from, seq_to, Filler, Filler, Filler>>

HmmLines ==
    {HmmLine(SeqA, tlen, PF00001, qlen, ev, score, hc[1], hc[2], sc[1], sc[2]) :
        tlen \in LengthFields \cup {<<"0">>}, qlen \in LengthFields,
        ev \in EvalueFields, score \in ScoreFields,
        hc \in HmmCoordinateFields, sc \in SeqCoordinateFields}
    \cup {<<>>, <<<<"#">>, Malformed>>}

\* the cutoffs Genome.add is called with
BlastCutoffs ==
    {[evalue |-> FloatNorm(1, 0 - 5), bitscore |-> IntToFloat(50),
      percent_id |-> IntToFloat(30)]}

HmmCutoffs ==
    {[evalue |-> FloatNorm(1, 0 - 5), bitscore |-> IntToFloat(50),
      query |-> FloatNorm(5, 0 - 1), reference |-> FloatNorm(5, 0 - 1)]}

---------------------------------------------------------------------------
(* A result parser consumed line by line (SpecParser).  gen.out collects   *)
(* the hits in the order the generator yields them, each with the number   *)
(* of the line it came from.                                               *)

GenOpen(variant, cutoffs) ==
    [pc |-> "reading", variant |-> variant, cutoffs |-> cutoffs, lineno |-> 0,
     yielded |-> 0, outcome |-> "none", error |-> "", line |-> <<>>,
     out |-> <<>>]

\* what the generator becomes when the loop body does `outcome` on the
\* next line of the file
GenStep(g, outcome) ==
    [g EXCEPT !.pc = IF outcome.kind = "error" THEN "error" ELSE "reading",
              !.lineno = @ + 1,
              !.yielded = IF outcome.kind = "yield" THEN @ + 1 ELSE @,
              !.outcome = outcome.kind,
              !.error = outcome.error]

\* the caller of SpecParser keeps the line it fed and collects the hits
Collect(g, line, outcome) ==
    [GenStep(g, outcome) EXCEPT
        !.line = line,
        !.out = IF outcome.kind = "yield"
                THEN Append(@, [lineno |-> g.lineno + 1, hit |-> outcome.hit])
                ELSE @]

InitParser ==
    /\ sequences = [p \in {SeqA} |-> Sequence(SeqLength)]
    /\ last = NoCall
    /\ gen = GenIdle

\* ap.from_blast_results(path, evalue_cutoff, bitscore_cutoff, percent_id_cutoff)
OpenBlast ==
    /\ gen.pc = "idle"
    /\ \E c \in BlastCutoffs : gen' = GenOpen("blast", c)
    /\ UNCHANGED <<sequences, last>>

\* ap.from_hmmsearch_results(path, evalue_cutoff, bitscore_cutoff, ...)
OpenHmm ==
    /\ gen.pc = "idle"
    /\ \E c \in HmmCutoffs : gen' = GenOpen("hmm", c)
    /\ UNCHANGED <<sequences, last>>

\* one turn of the loop of from_blast_results
ReadBlastLine ==
    /\ gen.pc = "reading" /\ gen.variant = "blast" /\ gen.lineno < MaxLines
    /\ \E sline \in BlastLines :
          gen' = Collect(gen, sline,
                    blast_line(sline, gen.cutoffs.evalue, gen.cutoffs.bitscore,
                               gen.cutoffs.percent_id))
    /\ UNCHANGED <<sequences, last>>

\* one turn of the loop of from_hmmsearch_results
ReadHmmLine ==
    /\ gen.pc = "reading" /\ gen.variant = "hmm" /\ gen.lineno < MaxLines
    /\ \E line \in HmmLines :
          gen' = Collect(gen, line,
                    hmmsearch_line(line, gen.cutoffs.evalue, gen.cutoffs.bitscore,
                                   gen.cutoffs.query, gen.cutoffs.reference))
    /\ UNCHANGED <<sequences, last>>

\* the file has no more lines: the generator is exhausted
EndOfFile ==
    /\ gen.pc = "reading"
    /\ gen' = [gen EXCEPT !.pc = "done"]
    /\ UNCHANGED <<sequences, last>>

NextParser == OpenBlast \/ OpenHmm \/ ReadBlastLine \/ ReadHmmLine \/ EndOfFile

SpecParser == InitParser /\ [][NextParser]_vars

---------------------------------------------------------------------------
(* Properties of the parsers, checked under SpecParser *)

\* the line just read was accepted: the last hit of gen.out came from it
Accepted ==
    /\ gen.pc \in {"reading", "done", "error"}
    /\ gen.out # <<>>
    /\ gen.out[Len(gen.out)].lineno = gen.lineno

LastHit == gen.out[Len(gen.out)].hit

\* hits are yielded in file order: their line numbers increase along
\* gen.out and none comes from a line not read yet
InFileOrder ==
    /\ \A i \in 1..Len(gen.out) : gen.out[i].lineno \in 1..gen.lineno
    /\ \A i, j \in 1..Len(gen.out) : i < j => gen.out[i].lineno < gen.out[j].lineno

\* the text between the first "~" of a field and the next one, or the end
AfterTilde(field) ==
    LET rest == SubSeq(field, IndexOf(field, "~") + 1, Len(field))
    IN  IF IndexOf(rest, "~") = 0 THEN rest
        ELSE SubSeq(rest, 1, IndexOf(rest, "~") - 1)

LineRead(variant) ==
    /\ gen.pc \in {"reading", "done", "error"}
    /\ gen.variant = variant
    /\ gen.lineno >= 1

\* the three cutoffs of the pairwise-alignment parser on gen.line
BlastNumbersParse ==
    /\ ParseFloat(gen.line[11]).ok /\ ParseFloat(gen.line[12]).ok
    /\ ParseFloat(gen.line[3]).ok
    /\ ParseInt(gen.line[7]).ok /\ ParseInt(gen.line[8]).ok

BlastCutoffsPass ==
    /\ FloatLe(ParseFloat(gen.line[11]).val, gen.cutoffs.evalue)
    /\ FloatLe(gen.cutoffs.bitscore, ParseFloat(gen.line[12]).val)
    /\ FloatLe(gen.cutoffs.percent_id, ParseFloat(gen.line[3]).val)

\* C5: a line of 12 fields whose numeric fields are numbers and whose
\* field 1 holds a "~" yields a hit if and only if evalue <= evalue_cutoff,
\* bitscore >= bitscore_cutoff and percent identity >= percent_cutoff; no
\* other line yields one; a hit carries field 0, the part of field 1 after
\* the "~" (up to a second "~") and the positions min(start,end) <= p <
\* max(start,end) of fields 6-7; hits come in file order.
C5_BlastAcceptance ==
    LineRead("blast") =>
        /\ InFileOrder
        /\ Accepted <=>
              /\ Len(gen.line) = 12
              /\ BlastNumbersParse
              /\ IndexOf(gen.line[2], "~") # 0
              /\ BlastCutoffsPass
        /\ Accepted =>
              LET first  == ParseInt(gen.line[7]).val
                  second == ParseInt(gen.line[8]).val
              IN  /\ LastHit.seqname = gen.line[1]
                  /\ LastHit.annotation = AfterTilde(gen.line[2])
                  /\ LastHit.region =
                        {p \in Min(first, second)..Max(first, second) :
                            p < Max(first, second)}

\* a second hit was yielded, from a line whose e-value equals the cutoff
\* and whose coordinates are reversed
C5_Witness_SecondHit ==
    /\ LineRead("blast")
    /\ Accepted
    /\ Len(gen.out) = 2
    /\ ParseFloat(gen.line[11]).val = gen.cutoffs.evalue
    /\ ParseInt(gen.line[7]).val > ParseInt(gen.line[8]).val

\* the numeric fields of the profile parser on gen.line
HmmNumbersParse ==
    /\ ParseFloat(gen.line[3]).ok /\ ParseFloat(gen.line[6]).ok
    /\ ParseFloat(gen.line[7]).ok /\ ParseFloat(gen.line[8]).ok
    /\ ParseInt(gen.line[16]).ok /\ ParseInt(gen.line[17]).ok
    /\ ParseInt(gen.line[18]).ok /\ ParseInt(gen.line[19]).ok

SeqSpan ==
    LET a == ParseInt(gen.line[18]).val
        b == ParseInt(gen.line[19]).val
    IN  IF a >= b THEN a - b ELSE b - a

HmmSpan ==
    LET a == ParseInt(gen.line[16]).val
        b == ParseInt(gen.line[17]).val
    IN  IF a >= b THEN a - b ELSE b - a

HmmCutoffsPass ==
    /\ FloatLe(ParseFloat(gen.line[7]).val, gen.cutoffs.evalue)
    /\ FloatLe(gen.cutoffs.bitscore, ParseFloat(gen.line[8]).val)
    /\ RatioAtLeast(SeqSpan, ParseFloat(gen.line[3]).val, gen.cutoffs.query)
    /\ RatioAtLeast(SeqSpan, ParseFloat(gen.line[6]).val, gen.cutoffs.reference)

C7_MalformedNumberIsFatal ==
    /\ (LineRead("blast") /\ Len(gen.line) = 12 /\ ~BlastNumbersParse) =>
          gen.pc = "error"
    /\ (/\ LineRead("hmm")
        /\ ~StartsWithHash(gen.line) /\ Len(gen.line) = 22
        /\ ~HmmNumbersParse) =>
          gen.pc = "error"

---------------------------------------------------------------------------
(* Genome: add and count on a genome of two proteins (Spec) *)

SeqB == <<"B">>

\* a sequence name that is no protein of the genome
SeqZ == <<"Z">>

UNSEEN == <<"U", "N", "S", "E", "E", "N">>

\* not one of AnnotationParser's types
Unsupported == "FOO"

\* Genome.add, lines 76-88: which parser the annotation type selects;
\* for any other type `iterator` is never bound.
\* (first a variant whose second branch is a plain else, so that any other
\* type is read as blast results)
Genome_add_iterator_else(annotation_type) ==
    IF annotation_type = PFAM \/ annotation_type = TIGRFAM THEN "hmm"
    ELSE "blast"

Genome_add_iterator(annotation_type) ==
    IF annotation_type = PFAM \/ annotation_type = TIGRFAM THEN "hmm"
    ELSE IF annotation_type = KO \/ annotation_type = COG THEN "blast"
    ELSE "unbound"

\* Genome.count: the sequences whose all_annotations() holds the identifier
RECURSIVE count_loop(_, _, _)
count_loop(seqs, names, annotation) ==
    IF names = {} THEN 0
    ELSE LET name == CHOOSE n \in names : TRUE
             ids == all_annotations(seqs[name])
         IN  (IF \E i \in 1..Len(ids) : ids[i] = annotation THEN 1 ELSE 0)
             + count_loop(seqs, names \ {name}, annotation)

\* a variant that counts list entries instead of sequences
RECURSIVE count_entries(_, _, _)
count_entries(seqs, names, annotation) ==
    IF names = {} THEN 0
    ELSE LET name == CHOOSE n \in names : TRUE
             ids == all_annotations(seqs[name])
         IN  Cardinality({i \in 1..Len(ids) : ids[i] = annotation})
             + count_entries(seqs, names \ {name}, annotation)

Genome_count_entries(seqs, annotation) ==
    count_entries(seqs, DOMAIN seqs, annotation)

Genome_count(seqs, annotation) == count_loop(seqs, DOMAIN seqs, annotation)

\* the result files read by Genome.add
KoTarget == <<"k", "o", "~">> \o K00001

E10 == <<"1", "e", "-", "1", "0">>
E5  == <<"1", "e", "-", "5">>
E3  == <<"1", "e", "-", "3">>

GenomeCoordinates == {<<<<"0">>, <<"1">>>>, <<<<"2">>, <<"1">>>>}

GenomeBlastLines ==
    {BlastLine(n, KoTarget, <<"3", "0">>, co[1], co[2], ev, <<"5", "0">>) :
        n \in {SeqA, SeqB}, co \in GenomeCoordinates, ev \in {E10, E5}}
    \cup {BlastLine(SeqA, KoTarget, <<"3", "0">>, <<"0">>, <<"1">>, Malformed, <<"5", "0">>),
          BlastLine(SeqA, KoTarget, <<"3", "0">>, <<"0">>, <<"1">>, E3, Malformed),
          BlastLine(SeqZ, KoTarget, <<"3", "0">>, <<"0">>, <<"1">>, E10, <<"5", "0">>),
          BlastLine(SeqA, KoTarget, <<"3", "0">>, <<"1">>, <<"1">>, E10, <<"5", "0">>),
          BlastLine(SeqB, KoTarget, <<"3", "0">>, <<"1">>, <<"3">>, E10, <<"5", "0">>)}

GenomeHmmLine(n, accession, co, ev, tlen) ==
    HmmLine(n, tlen, accession, <<"2">>, ev, <<"5", "0">>, <<"1">>, <<"2">>,
            co[1], co[2])

GenomeHmmLines ==
    {GenomeHmmLine(SeqA, PF00001, <<<<"0">>, <<"1">>>>, E5, <<"2">>),
     GenomeHmmLine(SeqB, PF00001, <<<<"0">>, <<"1">>>>, E5, <<"2">>),
     GenomeHmmLine(SeqA, PF00001, <<<<"2">>, <<"1">>>>, E5, <<"2">>),
     GenomeHmmLine(SeqA, K00001, <<<<"0">>, <<"1">>>>, E10, <<"2">>),
     GenomeHmmLine(SeqA, PF00001, <<<<"0">>, <<"1">>>>, E10, Malformed),
     <<<<"#">>, Malformed>>}

GenomeTypes == {KO, PFAM, Unsupported}

CountIds == {K00001, PF00001, UNSEEN}

\* Genome.__init__: one empty Sequence per protein of the file
Init ==
    /\ sequences = [p \in {SeqA, SeqB} |-> Sequence(SeqLength)]
    /\ last = NoCall
    /\ gen = GenIdle

Quiet == gen.pc \in {"idle", "done", "error"}

\* genome.add(annotations, cutoffs..., annotation_type) up to the for
\* statement: the parser is chosen; an unsupported type leaves `iterator`
\* unbound and the for statement raises UnboundLocalError
GenomeAddCall ==
    /\ Quiet
    /\ \E t \in GenomeTypes :
          LET variant == Genome_add_iterator(t)
          IN  /\ gen' = IF variant = "unbound"
                        THEN [GenOpen(variant, <<>>) EXCEPT
                                !.pc = "error", !.error = "UnboundLocalError"]
                        ELSE GenOpen(variant,
                                CHOOSE c \in (IF variant = "blast" THEN BlastCutoffs
                                              ELSE HmmCutoffs) : TRUE)
              /\ last' = [op |-> "Genome.add", seq |-> <<>>, arg |-> t,
                          before |-> <<>>, result |-> <<>>]
    /\ UNCHANGED sequences

\* the annotation type of the Genome.add call in progress
GenType == last.arg

\* one turn of the for loop of Genome.add (line 91-92): the next line is
\* parsed; a hit is added to its sequence (KeyError if the genome has no
\* such protein); an exception leaves the loop and the call.
\* (first a variant that, on an exception, removes the annotations of the
\* type being read)
GenomeAddLine_rollback ==
    /\ gen.pc = "reading" /\ gen.lineno < MaxLines
    /\ \E line \in (IF gen.variant = "blast" THEN GenomeBlastLines
                    ELSE GenomeHmmLines) :
       \E outcome \in
            {IF gen.variant = "blast"
             THEN blast_line(line, gen.cutoffs.evalue, gen.cutoffs.bitscore,
                             gen.cutoffs.percent_id)
             ELSE hmmsearch_line(line, gen.cutoffs.evalue, gen.cutoffs.bitscore,
                                 gen.cutoffs.query, gen.cutoffs.reference)} :
       \E step \in
            {IF outcome.kind = "yield"
                /\ outcome.hit.seqname \notin DOMAIN sequences
             THEN Raise("KeyError") ELSE outcome} :
          /\ gen' = GenStep(gen, step)
          /\ sequences' =
                IF step.kind = "yield"
                THEN [sequences EXCEPT ![step.hit.seqname] =
                        Sequence_add(@, step.hit.annotation, step.hit.evalue,
                                     step.hit.region, GenType)]
                ELSE IF step.kind = "error"
                THEN [p \in DOMAIN sequences |->
                        [sequences[p] EXCEPT !.annotations =
                            SelectSeq(@, LAMBDA a : a.type # GenType)]]
                ELSE sequences
    /\ UNCHANGED last

GenomeAddLine ==
    /\ gen.pc = "reading" /\ gen.lineno < MaxLines
    /\ \E line \in (IF gen.variant = "blast" THEN GenomeBlastLines
                    ELSE GenomeHmmLines) :
       \E outcome \in
            {IF gen.variant = "blast"
             THEN blast_line(line, gen.cutoffs.evalue, gen.cutoffs.bitscore,
                             gen.cutoffs.percent_id)
             ELSE hmmsearch_line(line, gen.cutoffs.evalue, gen.cutoffs.bitscore,
                                 gen.cutoffs.query, gen.cutoffs.reference)} :
       \E step \in
            {IF outcome.kind = "yield"
                /\ outcome.hit.seqname \notin DOMAIN sequences
             THEN Raise("KeyError") ELSE outcome} :
          /\ gen' = GenStep(gen, step)
          /\ sequences' =
                IF step.kind = "yield"
                THEN [sequences EXCEPT ![step.hit.seqname] =
                        Sequence_add(@, step.hit.annotation, step.hit.evalue,
                                     step.hit.region, GenType)]
                ELSE sequences
    /\ UNCHANGED last

\* the file has no more lines: the loop ends and Genome.add returns
GenomeAddReturn ==
    /\ gen.pc = "reading"
    /\ gen' = GenDone
    /\ UNCHANGED <<sequences, last>>

\* genome.count(annotation)
GenomeCount ==
    /\ Quiet
    /\ \E id \in CountIds :
          last' = [op |-> "count", seq |-> <<>>, arg |-> id, before |-> <<>>,
                   result |-> Genome_count(sequences, id)]
    /\ UNCHANGED <<sequences, gen>>

Next == GenomeAddCall \/ GenomeAddLine \/ GenomeAddReturn \/ GenomeCount

Spec == Init /\ [][Next]_vars

---------------------------------------------------------------------------
(* Properties of Genome.add and Genome.count, checked under Spec *)

\* C8: the step on which Genome.add leaves its loop with an exception (a
\* malformed numeric field at line n among them) changes no Sequence, so
\* that what lines 1..n-1 added or replaced stays; and from then on no
\* further line of the file is read: the sequences stay as they are until
\* another call reads another file.
C8_AbortKeepsPrefix ==
    [][/\ (gen.pc = "reading" /\ gen'.pc = "error") =>
              /\ sequences' = sequences
              /\ gen'.lineno = gen.lineno + 1
       /\ gen.pc = "error" =>
              /\ sequences' = sequences
              /\ gen' = gen \/ gen'.lineno = 0]_vars

\* Genome.add stopped on a malformed number at line 2 and the annotation
\* that line 1 added is still attached
C8_Witness_AbortAfterHit ==
    /\ gen.pc = "error"
    /\ gen.error = "ValueError"
    /\ gen.lineno = 2
    /\ gen.yielded = 1
    /\ last.op = "Genome.add"
    /\ \E p \in DOMAIN sequences : HasType(sequences[p].annotations, last.arg)

HoldsId(self, id) ==
    \E i \in 1..Len(self.annotations) : self.annotations[i].annotation = id

\* C9: count(annotation_id) is the number of sequences whose annotation
\* list holds the identifier, each sequence counted once; with protein A
\* holding K00001 and PF00001 and protein B nothing, it is 1 for K00001,
\* 1 for PF00001 and 0 for an identifier never stored.
C9_CountIsSequencesHolding ==
    last.op = "count" =>
        /\ last.result =
              Cardinality({p \in DOMAIN sequences : HoldsId(sequences[p], last.arg)})
        /\ (/\ {sequences[SeqA].annotations[i].annotation :
                    i \in 1..Len(sequences[SeqA].annotations)} = {K00001, PF00001}
            /\ sequences[SeqB].annotations = <<>>) =>
              last.result = IF last.arg = UNSEEN THEN 0 ELSE 1

\* a sequence with two list entries of the counted identifier counted once
C9_Witness_TwoEntriesOnce ==
    /\ last.op = "count"
    /\ last.result = 1
    /\ \E p \in DOMAIN sequences :
          \E i, j \in 1..Len(sequences[p].annotations) :
              /\ i # j
              /\ sequences[p].annotations[i].annotation = last.arg
              /\ sequences[p].annotations[j].annotation = last.arg

\* C11: every annotation that Genome.add attached to a sequence has a
\* region that is not empty and lies within 0 .. length-1 of that sequence:
\* a hit whose start equals its end, or whose coordinates pass the end of
\* the sequence, is never stored.
C11_RegionWithinSequence ==
    \A p \in DOMAIN sequences :
        \A i \in 1..Len(sequences[p].annotations) :
            /\ sequences[p].annotations[i].region # {}
            /\ sequences[p].annotations[i].region
                    \subseteq 0..(sequences[p].length - 1)

\* the annotation types Genome.add dispatches on (lines 76-88); COG is None
SupportedTypes == {KO, PFAM, TIGRFAM, COG}

\* C12: a Genome.add call with an annotation type that is none of the
\* supported ones ends with an error and not with a normal return: the call
\* is in its error outcome before any line of the file is read, and no
\* Sequence changes on the call or while that outcome stands.
C12_UnsupportedTypeFails ==
    [][(last'.op = "Genome.add" /\ last'.arg \notin SupportedTypes) =>
            /\ gen'.pc = "error"
            /\ gen'.lineno = 0
            /\ gen'.yielded = 0
            /\ sequences' = sequences]_vars

\* Genome.add with the type FOO has failed on a genome that already holds
\* annotations from an earlier file
C12_Witness_UnsupportedFailed ==
    /\ last.op = "Genome.add"
    /\ last.arg = Unsupported
    /\ gen.pc = "error"
    /\ gen.error = "UnboundLocalError"
    /\ \E p \in DOMAIN sequences : sequences[p].annotations # <<>>

---------------------------------------------------------------------------
(* Properties of sequences of Sequence.add calls *)

\* the list positions the last add call assigned the candidate to (line
\* 200), i.e. the existing records it replaced
Replaced ==
    {idx \in 1..Len(last.before) :
        /\ last.before[idx].type = LastNew.type
        /\ LastNow[idx] = LastNew
        /\ last.before[idx] # LastNew}

\* no add call replaces two records: the list never holds two records of
\* one type for a candidate to replace
AddReplacesAtMostOne == last.op = "add" => Cardinality(Replaced) <= 1

\* a caller that never stops calling add (add is always callable and
\* always returns)
SpecSequenceFair == SpecSequence /\ WF_vars(SeqAdd)

\* C13: add calls alone build a sequence on which one further add call
\* replaces more than one existing record of the candidate's type: a caller
\* who keeps adding candidates comes, sooner or later, to a call that
\* replaces several records. (AddReplacesAtMostOne above is the opposite
\* statement over every reachable state.)
C13_SomeAddReplacesSeveral ==
    <>(last.op = "add" /\ Cardinality(Replaced) > 1)

\* the annotations a list holds, as a set
StoredSet(annotations) == {annotations[i] : i \in 1..Len(annotations)}

\* the list an empty sequence ends with when first is added and then second
AddedInOrder(first, second) == add_resolve(add_resolve(<<>>, first), second)

\* C14: resolution depends on the order of the calls. When a sequence that
\* holds one annotation gets a different candidate of the same type, the
\* list is the one that adding the two to an empty sequence in this order
\* gives, and adding them in the other order ends with a different set of
\* stored annotations exactly when their regions do not intersect or their
\* e-values are equal (the one added first is then the one kept).
C14_OrderDependent ==
    (/\ last.op = "add"
     /\ Len(last.before) = 1
     /\ last.before[1].type = LastNew.type
     /\ last.before[1] # LastNew) =>
        /\ LastNow = AddedInOrder(last.before[1], LastNew)
        /\ (StoredSet(LastNow) # StoredSet(AddedInOrder(LastNew, last.before[1])))
              <=> \/ last.before[1].region \cap LastNew.region = {}
                  \/ last.before[1].evalue = LastNew.evalue
        /\ (StoredSet(LastNow) # StoredSet(AddedInOrder(LastNew, last.before[1])))
              => /\ LastNow = <<last.before[1]>>
                 /\ AddedInOrder(LastNew, last.before[1]) = <<LastNew>>

\* two candidates of one type on different positions of the sequence: the
\* first is stored, and in the other order the second would be
C14_Witness_FirstOneStays ==
    /\ last.op = "add"
    /\ Len(last.before) = 1
    /\ last.before[1].type = LastNew.type
    /\ last.before[1].region # {} /\ LastNew.region # {}
    /\ last.before[1].region \cap LastNew.region = {}
    /\ LastNow = <<last.before[1]>>
    /\ AddedInOrder(LastNew, last.before[1]) = <<LastNew>>
    /\ StoredSet(LastNow) # StoredSet(AddedInOrder(LastNew, last.before[1]))

\* the annotation types a list holds
TypesOf(annotations) == {annotations[i].type : i \in 1..Len(annotations)}

=============================================================================
